---- MODULE Spec2Model ----
(***************************************************************************)
(* The send-email edge function (the "dispatch operation") of stream-king, *)
(* with the two tables it reads and writes (smtp_configs, sent_emails),    *)
(* the identity provider that resolves the Authorization header, and the   *)
(* SMTP transport.  Each call of the handler is a process whose steps are  *)
(* the pieces of code between two awaits that touch a collaborator.        *)
(***************************************************************************)
EXTENDS Integers, Sequences, FiniteSets, TLC

\* Number of handler invocations (they run concurrently, as under serve()).
MaxCalls == 1

Calls == 1..MaxCalls

(***************************************************************************)
(* JavaScript values.  An optional value (undefined / SQL NULL, or a       *)
(* value) is a sequence of length 0 or 1.  Strings the handler tests for   *)
(* emptiness are sequences of characters.                                  *)
(***************************************************************************)
None == <<>>
Some(x) == <<x>>
IsSome(o) == Len(o) > 0
Val(o) == o[1]

\* `v || d` for an optional array: an array, even an empty one, is truthy.
OrNull(o) == IF IsSome(o) THEN o ELSE None
\* `v || false` for an optional boolean.
OrFalse(o) == IF IsSome(o) THEN Val(o) ELSE FALSE
\* `msg || d` for a string.
OrDefault(msg, d) == IF msg = "" THEN d ELSE msg

\* !s for an optional string: undefined and "" are falsy.
FalsyStr(o) == ~IsSome(o) \/ Len(Val(o)) = 0
\* !id for an optional identifier.
FalsyId(o) == ~IsSome(o) \/ Val(o) = ""

(***************************************************************************)
(* The identity provider: tokens and the users they resolve to.            *)
(***************************************************************************)
NoUser == "none"
Users == {"u1", "u2"}
Tokens == {"tok1", "tok2", "bad"}

\* resolveCaller: the user of a token, or NoUser.
resolveCaller(tok) ==
  CASE tok = "tok1" -> "u1"
    [] tok = "tok2" -> "u2"
    [] OTHER -> NoUser

(***************************************************************************)
(* The rows of smtp_configs present when the calls arrive.                 *)
(***************************************************************************)
InitialConfigs ==
  { [id |-> "cfg1", user_id |-> "u1", config_name |-> "work",
     smtp_host |-> "smtp.one.example", smtp_port |-> 587,
     smtp_username |-> "one", smtp_password |-> "secret1",
     from_email |-> "one@x.com", from_name |-> Some("One"),
     use_tls |-> TRUE, is_default |-> TRUE],
    [id |-> "cfg2", user_id |-> "u2", config_name |-> "home",
     smtp_host |-> "smtp.two.example", smtp_port |-> 465,
     smtp_username |-> "two", smtp_password |-> "secret2",
     from_email |-> "two@x.com", from_name |-> None,
     use_tls |-> FALSE, is_default |-> FALSE] }

ConfigIds == {"cfg1", "cfg2", "cfg9"}

(***************************************************************************)
(* Requests.                                                               *)
(***************************************************************************)
GoodAddr == "a@x.com"
OtherAddr == "c@x.com"
BadAddr == "not-an-email"

\* z.string().email(): the outcome of the syntax check on the sample addresses.
emailSchema(a) ==
  a \in {GoodAddr, OtherAddr, "one@x.com", "two@x.com", "new@x.com"}

FieldValues ==
  [method |-> {"POST", "OPTIONS"},
   Authorization |-> {None} \cup {Some(t) : t \in Tokens},
   malformed |-> BOOLEAN,
   smtp_config_id |-> {None} \cup {Some(i) : i \in ConfigIds},
   to |-> {None, Some(<<>>), Some(<<GoodAddr>>), Some(<<GoodAddr, BadAddr>>)},
   cc |-> {None, Some(<<>>), Some(<<OtherAddr>>)},
   bcc |-> {None, Some(<<>>), Some(<<BadAddr>>)},
   subject |-> {None, Some(<<>>), Some(<<" ">>), Some(<<"H", "i">>)},
   body |-> {None, Some(<<" ">>), Some(<<"H", "e", "y">>)},
   is_html |-> {None, Some(FALSE), Some(TRUE)}]

\* Scenario A of the specification, sent by u1 through u1's configuration.
BaseRequest ==
  [method |-> "POST", Authorization |-> Some("tok1"), malformed |-> FALSE,
   smtp_config_id |-> Some("cfg1"), to |-> Some(<<GoodAddr>>), cc |-> None,
   bcc |-> None, subject |-> Some(<<"H", "i">>), body |-> Some(<<"H", "e", "y">>),
   is_html |-> None]

\* The requests received: BaseRequest with the fields of one group replaced
\* by every combination of their values.

\* Who calls, and whose configuration is named.
CallerRequests ==
  {[BaseRequest EXCEPT !.Authorization = a, !.smtp_config_id = i] :
     a \in FieldValues.Authorization, i \in FieldValues.smtp_config_id}

\* The required fields.
RequiredFieldRequests ==
  {[BaseRequest EXCEPT !.to = t, !.subject = s, !.body = b] :
     t \in FieldValues.to, s \in FieldValues.subject, b \in FieldValues.body}

\* The optional fields.
OptionalFieldRequests ==
  {[BaseRequest EXCEPT !.cc = x, !.bcc = y, !.is_html = h] :
     x \in FieldValues.cc, y \in FieldValues.bcc, h \in FieldValues.is_html}

\* Requests that fail several steps of the handler at once.
MultiFaultRequests ==
  {[BaseRequest EXCEPT !.Authorization = a, !.smtp_config_id = i, !.to = t] :
     a \in FieldValues.Authorization, i \in {Some("cfg1"), Some("cfg2")},
     t \in {None, Some(<<>>), Some(<<GoodAddr, BadAddr>>)}}

\* The method, the header and a body that is not JSON.
EnvelopeRequests ==
  {[BaseRequest EXCEPT !.method = m, !.malformed = x, !.Authorization = a] :
     m \in FieldValues.method, x \in FieldValues.malformed,
     a \in {None, Some("tok1")}}

Requests ==
  CallerRequests \cup RequiredFieldRequests \cup OptionalFieldRequests
    \cup MultiFaultRequests \cup EnvelopeRequests

(***************************************************************************)
(* Responses.                                                              *)
(***************************************************************************)
corsHeaders == {"Access-Control-Allow-Origin", "Access-Control-Allow-Headers"}

\* JSON.stringify({ success, message?, error? })
Json(success, message, error) ==
  [success |-> success, message |-> message, error |-> error]

\* Variant of JsonResponse: the headers are Content-Type alone.
JsonResponseNoCors(status, body) ==
  [status |-> status, body |-> Some(body), headers |-> {"Content-Type"}]

\* new Response(JSON.stringify(body), { status, headers: {...corsHeaders, Content-Type} })
JsonResponse(status, body) ==
  [status |-> status, body |-> Some(body),
   headers |-> corsHeaders \cup {"Content-Type"}]

\* new Response(null, { headers: corsHeaders })
PreflightResponse == [status |-> 200, body |-> None, headers |-> corsHeaders]

\* No response yet.
NoResponse == [status |-> 0, body |-> None, headers |-> {}]

(***************************************************************************)
(* Errors a collaborator can throw.                                        *)
(***************************************************************************)
TransportErrors == {"Connection refused", "535 Authentication rejected"}
FetchFailed == "fetch failed"
JsonSyntaxError == "Unexpected token in JSON"
CloseFailed == "connection closed unexpectedly"

(***************************************************************************)
(* The settings page (SmtpSettings) of the signed-in user.                 *)
(***************************************************************************)
\* useAuth().user and the token of the session.
SessionUser == "u1"
SessionToken == "tok1"

\* Number of configurations the settings form creates.
MaxCreated == 1

\* Locations the router's history holds.
MaxHistory == 5

\* gen_random_uuid() for the n-th configuration created.
NewConfigId(n) ==
  CASE n = 1 -> "cfg3"
    [] n = 2 -> "cfg4"
    [] OTHER -> "cfg5"

\* String.prototype.trim on the texts typed into the form.
trimText(t) ==
  CASE t = " " -> ""
    [] t = " new " -> "new"
    [] t = " a@x.com " -> "a@x.com"
    [] OTHER -> t

\* The form after resetForm().
BlankForm ==
  [config_name |-> "", smtp_host |-> "", smtp_port |-> 587,
   smtp_username |-> "", smtp_password |-> "", from_email |-> "",
   from_name |-> "", use_tls |-> TRUE, is_default |-> FALSE]

\* A form filled in completely.
FilledForm ==
  [config_name |-> " new ", smtp_host |-> "smtp.new.example", smtp_port |-> 587,
   smtp_username |-> "new", smtp_password |-> "secret3",
   from_email |-> "new@x.com", from_name |-> "New", use_tls |-> TRUE,
   is_default |-> FALSE]

\* The port field's onChange: setSmtpPort(parseInt(e.target.value) || 587).
parsePort(typed) == IF typed = 0 THEN 587 ELSE typed

\* What the user types: FilledForm, or FilledForm with one field changed.
TypedForms ==
  {FilledForm,
   [FilledForm EXCEPT !.config_name = " "],
   [FilledForm EXCEPT !.smtp_port = parsePort(0)],
   [FilledForm EXCEPT !.smtp_port = parsePort(-1)],
   [FilledForm EXCEPT !.smtp_port = parsePort(65536)],
   [FilledForm EXCEPT !.from_email = BadAddr],
   [FilledForm EXCEPT !.from_name = ""]}

\* formData of handleSave: the texts trimmed, an empty from_name as null.
formData(form) ==
  [config_name |-> trimText(form.config_name),
   smtp_host |-> trimText(form.smtp_host),
   smtp_port |-> form.smtp_port,
   smtp_username |-> trimText(form.smtp_username),
   smtp_password |-> form.smtp_password,
   from_email |-> trimText(form.from_email),
   from_name |-> IF trimText(form.from_name) = "" THEN None
                                                 ELSE Some(trimText(form.from_name)),
   use_tls |-> form.use_tls,
   is_default |-> form.is_default]

\* Variant of smtpSchema: smtp_port is z.number().min(1), without the max.
smtpSchemaNoMax(data) ==
  /\ data.config_name # ""
  /\ data.smtp_host # ""
  /\ data.smtp_port >= 1
  /\ data.smtp_username # ""
  /\ data.smtp_password # ""
  /\ emailSchema(data.from_email)
  /\ IsSome(data.from_name)

\* smtpSchema.safeParse(data).success; from_name is z.string().optional(),
\* which admits undefined and a string, not null.
smtpSchema(data) ==
  /\ data.config_name # ""
  /\ data.smtp_host # ""
  /\ data.smtp_port >= 1 /\ data.smtp_port <= 65535
  /\ data.smtp_username # ""
  /\ data.smtp_password # ""
  /\ emailSchema(data.from_email)
  /\ IsSome(data.from_name)

\* The component when mounted: loading, the first fetchConfigs() in flight.
InitialSettings ==
  [loading |-> TRUE, fetching |-> TRUE, configs |-> {},
   isDialogOpen |-> FALSE, editingConfig |-> None, form |-> BlankForm,
   isSaving |-> FALSE, saving |-> None, toast |-> None]

(***************************************************************************)
(* The ComposeEmail component.  A recipient text is the sequence of the    *)
(* pieces its commas separate (String.prototype.split(',')), so the empty  *)
(* text is <<"">>; subject and body are sequences of characters.           *)
(***************************************************************************)
EmptyText == <<"">>

\* useState('') ... useState(false) of ComposeEmail, first render; `invoking`
\* is the call handleSend awaits and `result` the { data, error } its last
\* invoke resolved to.
InitialCompose ==
  [configs |-> {}, selectedConfig |-> "", to |-> EmptyText, cc |-> EmptyText,
   bcc |-> EmptyText, subject |-> <<>>, body |-> <<>>, isSending |-> FALSE,
   loadingConfigs |-> TRUE, showCcBcc |-> FALSE, toast |-> None,
   invoking |-> None, result |-> None]

\* Texts typed into the recipient, subject and body inputs.
ToTexts ==
  {EmptyText, <<" ">>, <<" a@x.com ", "">>, <<GoodAddr, BadAddr>>}
CcTexts == {EmptyText, <<OtherAddr>>, <<BadAddr>>}
BccTexts == {EmptyText, <<"", OtherAddr>>}
SubjectTexts == {<<>>, <<" ">>, <<" ", "H", "i", " ">>}
BodyTexts == {<<>>, <<" ", "H", "e", "y">>}

(***************************************************************************)
(* The routed pages.  useAuth() is read by both pages; the history is the  *)
(* router's stack of locations, the last one being the page mounted.       *)
(***************************************************************************)
Views == {"compose", "sent", "settings"}
IndexPath == "/"
AuthPath == "/auth"

\* The provider before it has resolved the session.
InitialAuth == [user |-> NoUser, loading |-> TRUE]

\* The application opened at "/": Index mounted, its effect yet to run.
InitialNav ==
  [history |-> <<IndexPath>>, currentView |-> "compose", effect |-> TRUE]

VARIABLES
  smtp_configs,  \* table public.smtp_configs
  sent_emails,   \* table public.sent_emails
  nextId,        \* the next sent_emails.id the store generates
  req,           \* per call: the Request
  pc,            \* per call: the await the handler is at
  bodyUsed,      \* per call: Request.bodyUsed
  user,          \* per call: `user` of the try block
  smtpConfig,    \* per call: `smtpConfig`, the row loaded
  session,       \* per call: the SMTPClient's connection
  delivered,     \* per call: the message the SMTP server accepted
  insertError,   \* per call: `insertError` of the try block
  error,         \* per call: `error` of the catch block
  catchUser,     \* per call: `user` of the catch block
  resp,          \* per call: the Response returned
  stub,          \* per call: invocations the collaborators recorded
  settings,      \* the state of the SmtpSettings component
  nextConfigId,  \* the number of smtp_configs.id values generated
  compose,       \* the state of the ComposeEmail component
  auth,          \* what useAuth() returns: user and loading
  nav            \* the router's history and the mounted page's state

vars == <<smtp_configs, sent_emails, nextId, req, pc, bodyUsed, user,
          smtpConfig, session, delivered, insertError, error, catchUser,
          resp, stub, settings, nextConfigId, compose, auth, nav>>

\* The settings page and the id generator.
settingsVars == <<settings, nextConfigId>>

\* The compose form and the routed pages.
pageVars == <<compose, auth, nav>>

\* What the handler leaves alone: everything in the browser.
clientVars == <<settingsVars, pageVars>>

store == <<smtp_configs, sent_emails, nextId>>

NoConfig == None
NoStub == [lookups |-> 0, sends |-> 0, inserts |-> 0, rows |-> {}]

Init ==
  /\ smtp_configs = InitialConfigs
  /\ sent_emails = {}
  /\ nextId = 1
  /\ req = [c \in Calls |-> BaseRequest]
  /\ pc = [c \in Calls |-> "idle"]
  /\ bodyUsed = [c \in Calls |-> FALSE]
  /\ user = [c \in Calls |-> NoUser]
  /\ smtpConfig = [c \in Calls |-> NoConfig]
  /\ session = [c \in Calls |-> "none"]
  /\ delivered = [c \in Calls |-> None]
  /\ insertError = [c \in Calls |-> "unset"]
  /\ error = [c \in Calls |-> None]
  /\ catchUser = [c \in Calls |-> NoUser]
  /\ resp = [c \in Calls |-> NoResponse]
  /\ stub = [c \in Calls |-> NoStub]
  /\ settings = InitialSettings
  /\ nextConfigId = 0
  /\ compose = InitialCompose
  /\ auth = InitialAuth
  /\ nav = InitialNav

(***************************************************************************)
(* Pieces of the handler.                                                  *)
(***************************************************************************)
\* return new Response(...): the call is over.
Return(c, response) ==
  /\ resp' = [resp EXCEPT ![c] = response]
  /\ pc' = [pc EXCEPT ![c] = "done"]

\* throw inside the try block: control enters the catch block, which
\* (the Authorization header being present) awaits getUser() again.
Throw(c, message) ==
  /\ error' = [error EXCEPT ![c] = Some(message)]
  /\ pc' = [pc EXCEPT ![c] = "catchGetUser"]

\* !authHeader
MissingAuthHeader(r) == ~IsSome(r.Authorization)

\* Variant of AuthFailed: the result of getUser() is not tested.
AuthFailedNever(u) == FALSE

\* userError || !user
AuthFailed(u) == u = NoUser

\* Variant of MissingRequiredFields: `to.length === 0` is not tested.
MissingRequiredFieldsNoLength(r) ==
  \/ FalsyId(r.smtp_config_id)
  \/ ~IsSome(r.to)
  \/ FalsyStr(r.subject)
  \/ FalsyStr(r.body)

\* The required-field test of the try block.
MissingRequiredFields(r) ==
  \/ FalsyId(r.smtp_config_id)
  \/ ~IsSome(r.to)
  \/ Len(Val(r.to)) = 0
  \/ FalsyStr(r.subject)
  \/ FalsyStr(r.body)

\* Variant of SelectConfig: the .eq("user_id", user.id) filter is left out.
SelectConfigAnyOwner(configs, id, owner) ==
  {cfg \in configs : cfg.id = id}

\* smtp_configs rows with this id owned by this user (.eq("id").eq("user_id")).
SelectConfig(configs, id, owner) ==
  {cfg \in configs : cfg.id = id /\ cfg.user_id = owner}

\* The "from" header.
fromAddress(cfg) ==
  IF IsSome(cfg.from_name) /\ Val(cfg.from_name) # ""
    THEN <<Val(cfg.from_name), " <", cfg.from_email, ">">>
    ELSE <<cfg.from_email>>

\* Variant of emailContent: the plain-text content is always set, the HTML
\* body added to it.
emailContentBoth(r, cfg) ==
  [from |-> fromAddress(cfg), to |-> Val(r.to), subject |-> Val(r.subject),
   content |-> Val(r.body)]
    @@ (IF IsSome(r.cc) /\ Len(Val(r.cc)) > 0 THEN [cc |-> Val(r.cc)] ELSE <<>>)
    @@ (IF IsSome(r.bcc) /\ Len(Val(r.bcc)) > 0 THEN [bcc |-> Val(r.bcc)] ELSE <<>>)
    @@ (IF OrFalse(r.is_html) THEN [html |-> Val(r.body)] ELSE <<>>)

\* emailContent as handed to client.send.
emailContent(r, cfg) ==
  [from |-> fromAddress(cfg), to |-> Val(r.to), subject |-> Val(r.subject)]
    @@ (IF IsSome(r.cc) /\ Len(Val(r.cc)) > 0 THEN [cc |-> Val(r.cc)] ELSE <<>>)
    @@ (IF IsSome(r.bcc) /\ Len(Val(r.bcc)) > 0 THEN [bcc |-> Val(r.bcc)] ELSE <<>>)
    @@ (IF OrFalse(r.is_html) THEN [html |-> Val(r.body)]
                              ELSE [content |-> Val(r.body)])

\* Variant of SentRow: the row is written with the status of the catch block.
SentRowAsFailed(r, uid) ==
  [user_id |-> uid, smtp_config_id |-> r.smtp_config_id, to_emails |-> r.to,
   cc_emails |-> OrNull(r.cc), bcc_emails |-> OrNull(r.bcc),
   subject |-> r.subject, body |-> r.body, is_html |-> OrFalse(r.is_html),
   status |-> "failed", error_message |-> None]

\* The row the try block inserts after a successful send.
SentRow(r, uid) ==
  [user_id |-> uid, smtp_config_id |-> r.smtp_config_id, to_emails |-> r.to,
   cc_emails |-> OrNull(r.cc), bcc_emails |-> OrNull(r.bcc),
   subject |-> r.subject, body |-> r.body, is_html |-> OrFalse(r.is_html),
   status |-> "sent", error_message |-> None]

\* The row the catch block inserts.
FailedRow(r, uid, message) ==
  [user_id |-> uid, smtp_config_id |-> r.smtp_config_id, to_emails |-> r.to,
   cc_emails |-> OrNull(r.cc), bcc_emails |-> OrNull(r.bcc),
   subject |-> r.subject, body |-> r.body, is_html |-> OrFalse(r.is_html),
   status |-> "failed", error_message |-> Some(message)]

\* The constraints of table sent_emails: NOT NULL columns and the foreign key.
RowAccepted(row, configs) ==
  /\ row.user_id \in Users
  /\ IsSome(row.to_emails)
  /\ IsSome(row.subject)
  /\ IsSome(row.body)
  /\ IsSome(row.smtp_config_id) =>
       \E cfg \in configs : cfg.id = Val(row.smtp_config_id)

\* Variant of InsertSentEmail: a row equal in every column to a stored one is
\* taken for a repeated request and not stored again.
InsertSentEmailDedup(c, row, outcome) ==
  /\ outcome = "ok" => RowAccepted(row, smtp_configs)
  /\ IF outcome = "ok" /\ ~\E old \in sent_emails : old = row @@ [id |-> old.id]
       THEN /\ sent_emails' = sent_emails \cup {row @@ [id |-> nextId]}
            /\ nextId' = nextId + 1
            /\ stub' = [stub EXCEPT ![c].inserts = @ + 1,
                                    ![c].rows = @ \cup {nextId}]
       ELSE /\ UNCHANGED <<sent_emails, nextId>>
            /\ stub' = [stub EXCEPT ![c].inserts = @ + 1]
  /\ UNCHANGED smtp_configs

\* supabaseAdmin.from("sent_emails").insert(row) by call c, with its outcome:
\* "ok" (stored), "error" (an error object is returned) or "throw".
InsertSentEmail(c, row, outcome) ==
  /\ outcome = "ok" => RowAccepted(row, smtp_configs)
  /\ IF outcome = "ok"
       THEN /\ sent_emails' = sent_emails \cup {row @@ [id |-> nextId]}
            /\ nextId' = nextId + 1
            /\ stub' = [stub EXCEPT ![c].inserts = @ + 1,
                                    ![c].rows = @ \cup {nextId}]
       ELSE /\ UNCHANGED <<sent_emails, nextId>>
            /\ stub' = [stub EXCEPT ![c].inserts = @ + 1]
  /\ UNCHANGED smtp_configs

(***************************************************************************)
(* The handler, one action per stretch of code between awaits.             *)
(***************************************************************************)

\* A request arrives: the code up to the first await (the preflight answer,
\* the Authorization header test, the two createClient calls).
Receive(c) ==
  /\ pc[c] = "idle"
  /\ \E r \in Requests :
       /\ req' = [req EXCEPT ![c] = r]
       /\ IF r.method = "OPTIONS"
            THEN Return(c, PreflightResponse)
            ELSE IF MissingAuthHeader(r)
              THEN Return(c, JsonResponse(401,
                     Json(FALSE, None, Some("Missing authorization header"))))
              ELSE /\ pc' = [pc EXCEPT ![c] = "getUser"]
                   /\ UNCHANGED resp
  /\ UNCHANGED <<store, bodyUsed, user, smtpConfig, session, delivered,
                 insertError, error, catchUser, stub>>
  /\ UNCHANGED clientVars

\* await supabaseUser.auth.getUser() returns; then await req.json() and the
\* required-field test.
GetUserReturns(c) ==
  /\ pc[c] = "getUser"
  /\ LET u == resolveCaller(Val(req[c].Authorization)) IN
       IF AuthFailed(u)
         THEN /\ Return(c, JsonResponse(401, Json(FALSE, None, Some("Unauthorized"))))
              /\ UNCHANGED <<user, bodyUsed, error>>
         ELSE /\ user' = [user EXCEPT ![c] = u]
              /\ bodyUsed' = [bodyUsed EXCEPT ![c] = TRUE]
              /\ IF req[c].malformed
                   THEN Throw(c, JsonSyntaxError) /\ UNCHANGED resp
                   ELSE IF MissingRequiredFields(req[c])
                     THEN /\ Return(c, JsonResponse(400,
                                 Json(FALSE, None, Some("Missing required fields"))))
                          /\ UNCHANGED error
                     ELSE /\ pc' = [pc EXCEPT ![c] = "lookup"]
                          /\ UNCHANGED <<resp, error>>
  /\ UNCHANGED <<store, req, smtpConfig, session, delivered, insertError,
                 catchUser, stub>>
  /\ UNCHANGED clientVars

\* await supabaseUser.auth.getUser() rejects (the identity provider is unreachable).
GetUserThrows(c) ==
  /\ pc[c] = "getUser"
  /\ Throw(c, FetchFailed)
  /\ UNCHANGED <<store, req, bodyUsed, user, smtpConfig, session, delivered,
                 insertError, catchUser, resp, stub>>
  /\ UNCHANGED clientVars

\* await supabaseAdmin.from("smtp_configs")...single(); on a row, the code up
\* to await client.send: new SMTPClient(...) opens the connection.
Lookup(c) ==
  /\ pc[c] = "lookup"
  /\ stub' = [stub EXCEPT ![c].lookups = @ + 1]
  /\ LET found == SelectConfig(smtp_configs, Val(req[c].smtp_config_id), user[c]) IN
       IF found = {}
         THEN /\ Return(c, JsonResponse(404,
                     Json(FALSE, None, Some("SMTP configuration not found"))))
              /\ UNCHANGED <<smtpConfig, session>>
         ELSE /\ smtpConfig' = [smtpConfig EXCEPT ![c] = Some(CHOOSE cfg \in found : TRUE)]
              /\ session' = [session EXCEPT ![c] = "open"]
              /\ pc' = [pc EXCEPT ![c] = "send"]
              /\ UNCHANGED resp
  /\ UNCHANGED <<store, req, bodyUsed, user, delivered, insertError, error,
                 catchUser>>
  /\ UNCHANGED clientVars

\* await client.send(emailContent) resolves: the server accepted the message.
SendDelivers(c) ==
  /\ pc[c] = "send"
  /\ stub' = [stub EXCEPT ![c].sends = @ + 1]
  /\ delivered' = [delivered EXCEPT ![c] = Some(emailContent(req[c], Val(smtpConfig[c])))]
  /\ pc' = [pc EXCEPT ![c] = "close"]
  /\ UNCHANGED <<store, req, bodyUsed, user, smtpConfig, session, insertError,
                 error, catchUser, resp>>
  /\ UNCHANGED clientVars

\* await client.send(emailContent) rejects: connection refused, authentication
\* rejected, timeout.
SendFails(c) ==
  /\ pc[c] = "send"
  /\ stub' = [stub EXCEPT ![c].sends = @ + 1]
  /\ \E message \in TransportErrors : Throw(c, message)
  /\ UNCHANGED <<store, req, bodyUsed, user, smtpConfig, session, delivered,
                 insertError, catchUser, resp>>
  /\ UNCHANGED clientVars

\* await client.close() resolves.
Close(c) ==
  /\ pc[c] = "close"
  /\ session' = [session EXCEPT ![c] = "closed"]
  /\ pc' = [pc EXCEPT ![c] = "insert"]
  /\ UNCHANGED <<store, req, bodyUsed, user, smtpConfig, delivered,
                 insertError, error, catchUser, resp, stub>>
  /\ UNCHANGED clientVars

\* await client.close() rejects.
CloseThrows(c) ==
  /\ pc[c] = "close"
  /\ Throw(c, CloseFailed)
  /\ UNCHANGED <<store, req, bodyUsed, user, smtpConfig, session, delivered,
                 insertError, catchUser, resp, stub>>
  /\ UNCHANGED clientVars

\* Variant of SentResponse: insertError is reported to the caller.
SentResponseStrict(insertErr) ==
  IF insertErr
    THEN JsonResponse(500, Json(FALSE, None, Some("Error saving sent email")))
    ELSE JsonResponse(200, Json(TRUE, Some("Email sent successfully"), None))

\* The response after the insert returned: insertError is logged, not reported.
SentResponse(insertErr) ==
  JsonResponse(200, Json(TRUE, Some("Email sent successfully"), None))

\* await supabaseAdmin.from("sent_emails").insert({... status: "sent"}) returns,
\* with or without insertError; the handler answers 200 either way.
InsertSent(c) ==
  /\ pc[c] = "insert"
  /\ \E outcome \in {"ok", "error"} :
       /\ InsertSentEmail(c, SentRow(req[c], user[c]), outcome)
       /\ insertError' = [insertError EXCEPT ![c] = IF outcome = "ok" THEN "null" ELSE "error"]
       /\ Return(c, SentResponse(outcome = "error"))
  /\ UNCHANGED <<req, bodyUsed, user, smtpConfig, session, delivered, error,
                 catchUser>>
  /\ UNCHANGED clientVars

\* The same insert rejects.
InsertSentThrows(c) ==
  /\ pc[c] = "insert"
  /\ InsertSentEmail(c, SentRow(req[c], user[c]), "throw")
  /\ Throw(c, FetchFailed)
  /\ UNCHANGED <<req, bodyUsed, user, smtpConfig, session, delivered,
                 insertError, catchUser, resp>>
  /\ UNCHANGED clientVars

\* Variant of CatchResponse: error.message is passed on without the fallback
\* text, and is lost when the thrown value has none.
CatchResponseNoText(c) ==
  JsonResponse(500, Json(FALSE, None, None))

\* The response of the catch block.
CatchResponse(c) ==
  JsonResponse(500, Json(FALSE, None,
                         Some(OrDefault(Val(error[c]), "Failed to send email"))))

\* Variant of CatchReachesInsert: req.clone() succeeds on a body already read.
CatchReachesInsertCloneAlways(c, u) ==
  /\ u # NoUser
  /\ ~req[c].malformed

\* Whether the catch block, having called getUser() with outcome `u`, reaches
\* its insert: a user, then req.clone() (a TypeError once the body was read)
\* and await clone.json().
CatchReachesInsert(c, u) ==
  /\ u # NoUser
  /\ ~bodyUsed[c]
  /\ ~req[c].malformed

\* catch block: await supabaseUser.auth.getUser() returns or rejects; without
\* a user, or when req.clone().json() throws, the handler answers at once.
CatchGetUser(c) ==
  /\ pc[c] = "catchGetUser"
  /\ \E u \in {resolveCaller(Val(req[c].Authorization)), NoUser} :
       /\ catchUser' = [catchUser EXCEPT ![c] = u]
       /\ IF CatchReachesInsert(c, u)
            THEN /\ pc' = [pc EXCEPT ![c] = "catchInsert"]
                 /\ UNCHANGED resp
            ELSE Return(c, CatchResponse(c))
  /\ UNCHANGED <<store, req, bodyUsed, user, smtpConfig, session, delivered,
                 insertError, error, stub>>
  /\ UNCHANGED clientVars

\* catch block: await supabaseAdmin.from("sent_emails").insert({... status:
\* "failed"}) returns or rejects; the handler answers 500.
CatchInsert(c) ==
  /\ pc[c] = "catchInsert"
  /\ \E outcome \in {"ok", "error", "throw"} :
       InsertSentEmail(c, FailedRow(req[c], catchUser[c], Val(error[c])), outcome)
  /\ Return(c, CatchResponse(c))
  /\ UNCHANGED <<req, bodyUsed, user, smtpConfig, session, delivered,
                 insertError, error, catchUser>>
  /\ UNCHANGED clientVars

Next ==
  \E c \in Calls :
    \/ Receive(c)
    \/ GetUserReturns(c)
    \/ GetUserThrows(c)
    \/ Lookup(c)
    \/ SendDelivers(c)
    \/ SendFails(c)
    \/ Close(c)
    \/ CloseThrows(c)
    \/ InsertSent(c)
    \/ InsertSentThrows(c)
    \/ CatchGetUser(c)
    \/ CatchInsert(c)

Spec == Init /\ [][Next]_vars

\* The await call c is suspended at settles: the promise resolves or rejects.
Settles(c) ==
  \/ GetUserReturns(c) \/ GetUserThrows(c)
  \/ Lookup(c)
  \/ SendDelivers(c) \/ SendFails(c)
  \/ Close(c) \/ CloseThrows(c)
  \/ InsertSent(c) \/ InsertSentThrows(c)
  \/ CatchGetUser(c)
  \/ CatchInsert(c)

\* Every promise the handler awaits settles; requests need not arrive.
FairSpec == Spec /\ \A c \in Calls : WF_vars(Settles(c))

(***************************************************************************)
(* The settings page: one action per event handler, or per stretch of an   *)
(* async handler between awaits.                                           *)
(***************************************************************************)
handlerVars == <<req, pc, bodyUsed, user, smtpConfig, session, delivered,
                 insertError, error, catchUser, resp, stub>>

\* Row level security of smtp_configs: USING / WITH CHECK (auth.uid() = user_id).
ConfigPolicy(u, cfg) == u = cfg.user_id

\* Variant of OnConfigDelete: the foreign key is ON DELETE CASCADE.
OnConfigDeleteCascade(rows, gone) ==
  {row \in rows : ~(IsSome(row.smtp_config_id) /\ Val(row.smtp_config_id) \in gone)}

\* sent_emails.smtp_config_id REFERENCES smtp_configs ON DELETE SET NULL:
\* the rows of sent_emails after the configurations `gone` were deleted.
OnConfigDelete(rows, gone) ==
  {IF IsSome(row.smtp_config_id) /\ Val(row.smtp_config_id) \in gone
     THEN [row EXCEPT !.smtp_config_id = None]
     ELSE row : row \in rows}

\* toast({ title }) of the settings page.
Toast(title) == [settings EXCEPT !.toast = Some(title)]

\* fetchConfigs() settles: the user's rows, newest first, or an error that is
\* only logged; loading ends either way.
FetchConfigsSettles ==
  /\ settings.fetching
  /\ \E outcome \in {"ok", "error"} :
       settings' = [settings EXCEPT
         !.configs = IF outcome = "ok"
                       THEN {cfg \in smtp_configs : ConfigPolicy(SessionUser, cfg)}
                       ELSE @,
         !.loading = FALSE,
         !.fetching = FALSE]
  /\ UNCHANGED <<store, handlerVars, nextConfigId, pageVars>>

\* The "Add Configuration" trigger: onOpenChange(true).
OpenAddDialog ==
  /\ ~settings.loading /\ ~settings.isDialogOpen
  /\ settings' = [settings EXCEPT !.isDialogOpen = TRUE]
  /\ UNCHANGED <<store, handlerVars, nextConfigId, pageVars>>

\* openEditDialog(config) for a configuration of the list.
openEditDialog(config) ==
  /\ ~settings.loading /\ ~settings.isDialogOpen
  /\ config \in settings.configs
  /\ settings' = [settings EXCEPT
       !.editingConfig = Some(config.id),
       !.form = [config_name |-> config.config_name,
                 smtp_host |-> config.smtp_host,
                 smtp_port |-> config.smtp_port,
                 smtp_username |-> config.smtp_username,
                 smtp_password |-> config.smtp_password,
                 from_email |-> config.from_email,
                 from_name |-> IF IsSome(config.from_name)
                                 THEN Val(config.from_name) ELSE "",
                 use_tls |-> config.use_tls,
                 is_default |-> config.is_default],
       !.isDialogOpen = TRUE]
  /\ UNCHANGED <<store, handlerVars, nextConfigId, pageVars>>

\* The Cancel button: setIsDialogOpen(false), without resetForm().
Cancel ==
  /\ settings.isDialogOpen
  /\ settings' = [settings EXCEPT !.isDialogOpen = FALSE]
  /\ UNCHANGED <<store, handlerVars, nextConfigId, pageVars>>

\* The dialog is dismissed: onOpenChange(false), which calls resetForm().
CloseDialog ==
  /\ settings.isDialogOpen
  /\ settings' = [settings EXCEPT !.isDialogOpen = FALSE,
                                  !.form = BlankForm,
                                  !.editingConfig = None]
  /\ UNCHANGED <<store, handlerVars, nextConfigId, pageVars>>

\* The user fills in the form.
TypeForm ==
  /\ settings.isDialogOpen
  /\ \E f \in TypedForms : settings' = [settings EXCEPT !.form = f]
  /\ UNCHANGED <<store, handlerVars, nextConfigId, pageVars>>

\* The "default" switch: onCheckedChange = setIsDefault.
SetIsDefault ==
  /\ settings.isDialogOpen
  /\ settings' = [settings EXCEPT !.form.is_default = ~@]
  /\ UNCHANGED <<store, handlerVars, nextConfigId, pageVars>>


\* handleSave up to its await: the form is validated; a form that fails gets
\* a toast and nothing else; otherwise isSaving is set and the update
\* (editingConfig set) or the insert is sent.
handleSave ==
  /\ settings.isDialogOpen /\ ~settings.isSaving
  /\ LET data == formData(settings.form) IN
       IF ~smtpSchema(data)
         THEN settings' = Toast("Validation Error")
         ELSE settings' = [settings EXCEPT
                !.isSaving = TRUE,
                !.saving = Some([data |-> data, editing |-> settings.editingConfig])]
  /\ UNCHANGED <<store, handlerVars, nextConfigId, pageVars>>

\* The state of the page after a save that succeeded: the dialog closed,
\* resetForm(), fetchConfigs() called, and `finally` clearing isSaving.
Saved(title) ==
  [settings EXCEPT !.toast = Some(title), !.isDialogOpen = FALSE,
                   !.form = BlankForm, !.editingConfig = None,
                   !.fetching = TRUE, !.isSaving = FALSE, !.saving = None]

\* .update(formData).eq('id', editingConfig.id) settles.
UpdateSettles ==
  /\ settings.saving # None /\ IsSome(Val(settings.saving).editing)
  /\ LET data == Val(settings.saving).data
         id == Val(Val(settings.saving).editing) IN
       \E outcome \in {"ok", "error"} :
         IF outcome = "ok"
           THEN /\ smtp_configs' =
                     {IF cfg.id = id /\ ConfigPolicy(SessionUser, cfg)
                        THEN data @@ [id |-> cfg.id, user_id |-> cfg.user_id]
                        ELSE cfg : cfg \in smtp_configs}
                /\ settings' = Saved("Configuration Updated")
           ELSE /\ settings' = [settings EXCEPT !.toast = Some("Error"),
                                                !.isSaving = FALSE, !.saving = None]
                /\ UNCHANGED smtp_configs
  /\ UNCHANGED <<sent_emails, nextId, handlerVars, nextConfigId, pageVars>>

\* .insert({...formData, user_id: user?.id}) settles.
InsertSettles ==
  /\ settings.saving # None /\ ~IsSome(Val(settings.saving).editing)
  /\ LET data == Val(settings.saving).data IN
       \E outcome \in {"ok", "error"} :
         IF outcome = "ok"
           THEN /\ nextConfigId < MaxCreated
                /\ nextConfigId' = nextConfigId + 1
                /\ smtp_configs' = smtp_configs \cup
                     {data @@ [id |-> NewConfigId(nextConfigId + 1),
                               user_id |-> SessionUser]}
                /\ settings' = Saved("Configuration Added")
           ELSE /\ settings' = [settings EXCEPT !.toast = Some("Error"),
                                                !.isSaving = FALSE, !.saving = None]
                /\ UNCHANGED <<smtp_configs, nextConfigId>>
  /\ UNCHANGED <<sent_emails, nextId, handlerVars, pageVars>>

\* handleDelete(id) for a configuration of the list: the delete settles (the
\* handler writes nothing before its await), then the toast and fetchConfigs().
handleDelete(id) ==
  /\ ~settings.loading /\ ~settings.isDialogOpen
  /\ \E cfg \in settings.configs : cfg.id = id
  /\ \E outcome \in {"ok", "error"} :
       IF outcome = "ok"
         THEN LET gone == {cfg \in smtp_configs :
                             cfg.id = id /\ ConfigPolicy(SessionUser, cfg)} IN
                /\ smtp_configs' = smtp_configs \ gone
                /\ sent_emails' = OnConfigDelete(sent_emails, {cfg.id : cfg \in gone})
                /\ settings' = [settings EXCEPT
                     !.toast = Some("Configuration Deleted"), !.fetching = TRUE]
         ELSE /\ settings' = Toast("Error")
              /\ UNCHANGED <<smtp_configs, sent_emails>>
  /\ UNCHANGED <<nextId, handlerVars, nextConfigId, pageVars>>

(***************************************************************************)
(* sent_emails as the policies of the table leave it to a signed-in user.  *)
(***************************************************************************)
\* Variant of SentEmailsUpdatePolicy: an UPDATE policy for the owner.
SentEmailsUpdatePolicyOwner(u, row) == u = row.user_id

\* Row level security is enabled and no policy is FOR UPDATE.
SentEmailsUpdatePolicy(u, row) == FALSE

\* "Users can delete their own sent emails".
SentEmailsDeletePolicy(u, row) == u = row.user_id

\* A user's UPDATE of the row with this id.
UpdateSentEmail(u, id) ==
  /\ \E row \in sent_emails : row.id = id
  /\ sent_emails' =
       {IF row.id = id /\ SentEmailsUpdatePolicy(u, row)
          THEN [row EXCEPT !.subject = Some(<<>>)]
          ELSE row : row \in sent_emails}
  /\ UNCHANGED <<smtp_configs, nextId, handlerVars, clientVars>>

\* A user's DELETE of the row with this id.
DeleteSentEmail(u, id) ==
  /\ \E row \in sent_emails : row.id = id
  /\ sent_emails' =
       {row \in sent_emails : ~(row.id = id /\ SentEmailsDeletePolicy(u, row))}
  /\ UNCHANGED <<smtp_configs, nextId, handlerVars, clientVars>>

(***************************************************************************)
(* The compose form invoking the function for the signed-in user.          *)
(***************************************************************************)
\* The bodies handleSend builds: the configuration selected from a list the
\* form fetched, `to` parsed and valid, cc absent or filled, the subject
\* trimmed and not empty, the body trimmed, is_html false.
InvokeRequests ==
  {[BaseRequest EXCEPT !.Authorization = Some(SessionToken),
                       !.smtp_config_id = Some(i), !.cc = x, !.body = b,
                       !.is_html = Some(FALSE)] :
     i \in {cfg.id : cfg \in {k \in InitialConfigs \cup smtp_configs :
                                k.user_id = SessionUser}},
     x \in {None, Some(<<OtherAddr>>)},
     b \in {Some(<<>>), Some(<<"H", "e", "y">>)}}

\* supabase.functions.invoke('send-email', { body }) of handleSend, the Send
\* button being disabled while a send is in flight; the handler runs up to
\* its first await.
Invoke(c) ==
  /\ pc[c] = "idle"
  /\ \A d \in Calls : pc[d] \in {"idle", "done"}
  /\ \E r \in InvokeRequests : req' = [req EXCEPT ![c] = r]
  /\ pc' = [pc EXCEPT ![c] = "getUser"]
  /\ UNCHANGED <<store, bodyUsed, user, smtpConfig, session, delivered,
                 insertError, error, catchUser, resp, stub, clientVars>>

\* The handler under the compose form, the deletion of configurations and
\* the users' own access to sent_emails.
StoreNext ==
  \/ \E c \in Calls :
       \/ Invoke(c)
       \/ GetUserReturns(c)
       \/ GetUserThrows(c)
       \/ Lookup(c)
       \/ SendDelivers(c)
       \/ SendFails(c)
       \/ Close(c)
       \/ CloseThrows(c)
       \/ InsertSent(c)
       \/ InsertSentThrows(c)
       \/ CatchGetUser(c)
       \/ CatchInsert(c)
  \/ FetchConfigsSettles
  \/ \E id \in ConfigIds : handleDelete(id)
  \/ \E u \in Users, id \in 1..MaxCalls : UpdateSentEmail(u, id)
  \/ \E u \in Users, id \in 1..MaxCalls : DeleteSentEmail(u, id)

StoreSpec == Init /\ [][StoreNext]_vars

\* The settings page alone.
SettingsNext ==
  \/ FetchConfigsSettles
  \/ OpenAddDialog
  \/ \E config \in settings.configs : openEditDialog(config)
  \/ Cancel
  \/ CloseDialog
  \/ TypeForm
  \/ SetIsDefault
  \/ handleSave
  \/ UpdateSettles
  \/ InsertSettles
  \/ \E id \in ConfigIds \cup {NewConfigId(n) : n \in 1..MaxCreated} : handleDelete(id)

SettingsSpec == Init /\ [][SettingsNext]_vars

(***************************************************************************)
(* Properties of the dispatch operation.                                   *)
(***************************************************************************)
Started(c) == pc[c] # "idle" /\ req[c].method = "POST"
Done(c) == pc[c] = "done" /\ req[c].method = "POST"

\* The rows of sent_emails that call c created.
RowsOf(c) == {row \in sent_emails : row.id \in stub[c].rows}

\* The JSON body of call c's response.
BodyOf(c) == Val(resp[c].body)

\* User u owns a configuration with this id.
OwnsConfig(u, id) ==
  \E cfg \in smtp_configs : cfg.id = id /\ cfg.user_id = u

\* The token is missing or resolves to no known identity.
TokenUnknown(r) ==
  \/ ~IsSome(r.Authorization)
  \/ resolveCaller(Val(r.Authorization)) \notin Users

\* `to` is missing or empty.
ToMissing(r) == ~IsSome(r.to) \/ Val(r.to) = <<>>

\* The body parses and every required field is there.
FieldsPresent(r) ==
  /\ ~r.malformed
  /\ IsSome(r.smtp_config_id) /\ Val(r.smtp_config_id) # ""
  /\ ~ToMissing(r)
  /\ IsSome(r.subject) /\ Val(r.subject) # <<>>
  /\ IsSome(r.body) /\ Val(r.body) # <<>>

\* Some address of to, cc or bcc fails the syntax check.
HasInvalidAddress(r) ==
  \E f \in {"to", "cc", "bcc"} :
    /\ IsSome(r[f])
    /\ \E i \in 1..Len(Val(r[f])) : ~emailSchema(Val(r[f])[i])

\* The transport was invoked and did not deliver.
TransportFailed(c) == stub[c].sends = 1 /\ delivered[c] = None

NotFoundResponse ==
  JsonResponse(404, Json(FALSE, None, Some("SMTP configuration not found")))

\* C1: a call that reaches the configuration lookup with an id that names no
\* configuration owned by the resolved caller (no such row, or a row of
\* another user) is answered 404 "SMTP configuration not found", a fixed
\* response holding nothing of any configuration; no row is loaded and no
\* session is opened.
C1_UnownedConfigNotFound ==
  [][\A c \in Calls :
       (/\ pc[c] = "lookup"
        /\ pc'[c] # "lookup"
        /\ ~OwnsConfig(user[c], Val(req[c].smtp_config_id)))
       => (/\ resp'[c] = NotFoundResponse
           /\ smtpConfig'[c] = NoConfig
           /\ session'[c] = "none")]_vars

\* A call by a known user was answered 404 for another user's configuration.
C1_Witness ==
  \E c \in Calls :
    /\ Done(c) /\ user[c] \in Users /\ resp[c].status = 404
    /\ \E cfg \in smtp_configs :
         cfg.id = Val(req[c].smtp_config_id) /\ cfg.user_id # user[c]

\* C2: a call without Authorization header, or whose token resolves to no
\* known identity, looks up no configuration, opens no session, transmits
\* nothing and writes no history; when the identity provider answered, the
\* response is 401 with success:false.
C2_UnauthorizedNoEffects ==
  \A c \in Calls :
    (Started(c) /\ TokenUnknown(req[c])) =>
      /\ stub[c] = NoStub
      /\ session[c] = "none"
      /\ delivered[c] = None
      /\ (pc[c] = "done" /\ error[c] = None) =>
           /\ resp[c].status = 401
           /\ BodyOf(c).success = FALSE
           /\ BodyOf(c).error \in {Some("Missing authorization header"),
                                   Some("Unauthorized")}

\* A call with a token the identity provider does not know was answered 401.
C2_Witness ==
  \E c \in Calls :
    /\ Done(c) /\ req[c].Authorization = Some("bad")
    /\ FieldsPresent(req[c]) /\ resp[c].status = 401

\* C3: a request with an address in to, cc or bcc that fails the syntax check
\* opens no transport session, and is answered success:false with error
\* "Invalid email address".
C3_InvalidAddressRejected ==
  \A c \in Calls :
    (Started(c) /\ HasInvalidAddress(req[c])) =>
      /\ session[c] = "none"
      /\ stub[c].sends = 0
      /\ (pc[c] = "done" /\ user[c] \in Users /\ FieldsPresent(req[c])) =>
           BodyOf(c) = Json(FALSE, None, Some("Invalid email address"))

\* C4: a request whose `to` is missing or empty opens no transport session
\* and invokes the transport zero times; from an authenticated caller (the
\* identity provider resolved the token, the body parsed) it is answered 400.
C4_MissingToRejected ==
  \A c \in Calls :
    (Started(c) /\ ToMissing(req[c])) =>
      /\ session[c] = "none"
      /\ stub[c].sends = 0
      /\ delivered[c] = None
      /\ (pc[c] = "done" /\ user[c] \in Users /\ ~req[c].malformed) =>
           /\ resp[c].status = 400
           /\ BodyOf(c).success = FALSE

\* An authenticated call with an empty `to` array was answered 400.
C4_Witness ==
  \E c \in Calls :
    /\ Done(c) /\ user[c] \in Users /\ req[c].to = Some(<<>>)
    /\ resp[c].status = 400

\* C5: a call invokes the transport at most once and attempts at most one
\* insert into sent_emails (so creates at most one row), on every path.
C5_AtMostOnce ==
  \A c \in Calls :
    /\ stub[c].sends <= 1
    /\ stub[c].inserts <= 1
    /\ Cardinality(stub[c].rows) <= 1

\* A call delivered its message, its insert threw, and the catch block ran
\* to the end.
C5_Witness ==
  \E c \in Calls :
    /\ Done(c) /\ delivered[c] # None /\ error[c] = Some(FetchFailed)
    /\ stub[c].sends = 1 /\ stub[c].inserts = 1

\* C6: when the transport fails, the caller receives success:false with the
\* transport's error text, and (the caller being resolved again in the catch
\* block) a row with status "failed" and that text is written for the caller:
\* the insert is made, and a row it created has these values.
C6_TransportFailureRecorded ==
  \A c \in Calls :
    (Done(c) /\ TransportFailed(c) /\ catchUser[c] \in Users) =>
      /\ BodyOf(c) = Json(FALSE, None, error[c])
      /\ stub[c].inserts = 1
      /\ \A row \in RowsOf(c) :
           /\ row.status = "failed"
           /\ row.error_message = error[c]
           /\ row.user_id = user[c]

\* C7: a well-formed request of a resolved caller naming an own configuration,
\* with nothing thrown on the way, is delivered and answered 200 success:true;
\* when the store accepted the insert, the call created exactly one row, with
\* status "sent", no error_message and the caller as owner.
C7_SuccessRecorded ==
  \A c \in Calls :
    (/\ Done(c) /\ user[c] \in Users /\ FieldsPresent(req[c])
     /\ OwnsConfig(user[c], Val(req[c].smtp_config_id))
     /\ error[c] = None) =>
      /\ delivered[c] # None
      /\ resp[c].status = 200
      /\ BodyOf(c).success = TRUE
      /\ BodyOf(c).error = None
      /\ insertError[c] = "null" =>
           /\ Cardinality(RowsOf(c)) = 1
           /\ \A row \in RowsOf(c) :
                /\ row.status = "sent"
                /\ row.error_message = None
                /\ row.user_id = user[c]
                /\ row.to_emails = req[c].to

\* Scenario A ran to the end and its row is in sent_emails.
C7_Witness ==
  \E c \in Calls :
    /\ Done(c) /\ req[c] = BaseRequest /\ resp[c].status = 200
    /\ insertError[c] = "null" /\ RowsOf(c) # {}

C9_SessionReleased ==
  \A c \in Calls : pc[c] = "done" => session[c] \in {"none", "closed"}

\* C10: the status mapping: a delivery failure is answered 200 with
\* success:false; 500 only when something other than the transport threw;
\* 401 for a missing or unknown token, 400 for missing required fields and
\* 404 for a configuration that is not found.
C10_StatusMapping ==
  \A c \in Calls :
    Done(c) =>
      /\ TransportFailed(c) => (resp[c].status = 200 /\ BodyOf(c).success = FALSE)
      /\ resp[c].status = 500 => (error[c] # None /\ Val(error[c]) \notin TransportErrors)
      /\ (TokenUnknown(req[c]) /\ error[c] = None) => resp[c].status = 401
      /\ (user[c] \in Users /\ ~req[c].malformed /\ ~FieldsPresent(req[c]))
           => resp[c].status = 400
      /\ (user[c] \in Users /\ FieldsPresent(req[c])
          /\ ~OwnsConfig(user[c], Val(req[c].smtp_config_id)))
           => resp[c].status = 404

\* C11: a call answered 404 "SMTP configuration not found", and any call that
\* reached the lookup naming a configuration the caller does not own (absent,
\* or another user's), made no insert into sent_emails, created no row, did
\* not invoke the transport, opened no session and delivered nothing.
C11_NotFoundNoEffects ==
  \A c \in Calls :
    (/\ Done(c)
     /\ \/ resp[c].status = 404
        \/ /\ stub[c].lookups = 1
           /\ ~OwnsConfig(user[c], Val(req[c].smtp_config_id))) =>
      /\ resp[c] = NotFoundResponse
      /\ stub[c].sends = 0
      /\ stub[c].inserts = 0
      /\ RowsOf(c) = {}
      /\ delivered[c] = None
      /\ session[c] = "none"

\* Scenario D: u1 named u2's configuration, was answered 404, and the lookup
\* is the only collaborator call made.
C11_Witness ==
  \E c \in Calls :
    /\ Done(c) /\ user[c] = "u1" /\ req[c].smtp_config_id = Some("cfg2")
    /\ resp[c].status = 404
    /\ stub[c] = [NoStub EXCEPT !.lookups = 1]

\* C12: when cc (bcc) of the request is an empty array, the message handed to
\* the transport has no cc (bcc) field, and every row the call stores has
\* cc_emails (bcc_emails) NULL, not an empty array.
C12_EmptyCcBccAbsent ==
  \A c \in Calls :
    /\ (Started(c) /\ req[c].cc = Some(<<>>)) =>
         /\ delivered[c] # None => "cc" \notin DOMAIN Val(delivered[c])
         /\ \A row \in RowsOf(c) : row.cc_emails = None
    /\ (Started(c) /\ req[c].bcc = Some(<<>>)) =>
         /\ delivered[c] # None => "bcc" \notin DOMAIN Val(delivered[c])
         /\ \A row \in RowsOf(c) : row.bcc_emails = None

\* C13: a call writes a row of sent_emails only once its client.send has
\* completed (resolved or rejected); a call whose client.send has completed
\* makes, by its end, exactly one insert and has at most one row; a call that
\* never reached client.send makes no insert.
C13_RecordAfterTransport ==
  \A c \in Calls :
    /\ stub[c].sends = 0 => (stub[c].inserts = 0 /\ RowsOf(c) = {})
    /\ (Done(c) /\ stub[c].sends = 1) =>
         (stub[c].inserts = 1 /\ Cardinality(RowsOf(c)) <= 1)

\* String.prototype.trim on a sequence of characters.
Whitespace == {" "}

RECURSIVE trimStart(_)
trimStart(s) ==
  IF s # <<>> /\ Head(s) \in Whitespace THEN trimStart(Tail(s)) ELSE s

RECURSIVE trimEnd(_)
trimEnd(s) ==
  IF s # <<>> /\ s[Len(s)] \in Whitespace
    THEN trimEnd(SubSeq(s, 1, Len(s) - 1))
    ELSE s

trim(s) == trimEnd(trimStart(s))

\* The value is absent, or empty once trimmed.
Blank(o) == ~IsSome(o) \/ trim(Val(o)) = <<>>

\* C14: a request whose subject or body is absent or empty after trimming
\* (whitespace only included) opens no transport session and transmits
\* nothing; from an authenticated caller, the body parsing, it is answered
\* 400 with success:false.
C14_BlankSubjectOrBodyRejected ==
  \A c \in Calls :
    (Started(c) /\ (Blank(req[c].subject) \/ Blank(req[c].body))) =>
      /\ session[c] = "none"
      /\ stub[c].sends = 0
      /\ delivered[c] = None
      /\ (pc[c] = "done" /\ user[c] \in Users /\ ~req[c].malformed) =>
           /\ resp[c].status = 400
           /\ BodyOf(c).success = FALSE

\* The request names a configuration the user does not own.
NamesUnowned(r, u) ==
  IsSome(r.smtp_config_id) /\ ~OwnsConfig(u, Val(r.smtp_config_id))

C16_CorsOnEveryResponse ==
  \A c \in Calls :
    pc[c] = "done" =>
      /\ corsHeaders \subseteq resp[c].headers
      /\ req[c].method = "OPTIONS" =>
           /\ resp[c] = PreflightResponse
           /\ user[c] = NoUser /\ ~bodyUsed[c]
           /\ stub[c] = NoStub
           /\ session[c] = "none" /\ delivered[c] = None

\* An OPTIONS request without Authorization header was answered by the
\* preflight response.
C16_Witness ==
  \E c \in Calls :
    /\ pc[c] = "done" /\ req[c].method = "OPTIONS"
    /\ req[c].Authorization = None
    /\ resp[c].status = 200 /\ resp[c].body = None

\* The response is { success, message?, error? } as JSON, and a failure
\* carries a non-empty error text.
Structured(response) ==
  /\ IsSome(response.body)
  /\ DOMAIN Val(response.body) = {"success", "message", "error"}
  /\ Val(response.body).success \in BOOLEAN
  /\ ~Val(response.body).success =>
       (IsSome(Val(response.body).error) /\ Val(Val(response.body).error) # "")

\* C17: every POST call that started ends (the promises it awaits settling)
\* with a response; the response of a finished call is structured and is not
\* replaced; after a transport failure it is success:false with a non-empty
\* error text, whatever the catch block's attempt to record did.
C17_StructuredResponse ==
  /\ \A c \in Calls : (pc[c] # "idle") ~> (pc[c] = "done")
  /\ [](\A c \in Calls : Done(c) => Structured(resp[c]))
  /\ [](\A c \in Calls : (Done(c) /\ TransportFailed(c)) =>
                            (~BodyOf(c).success /\ Structured(resp[c])))
  /\ [][\A c \in Calls : pc[c] = "done" =>
                            (pc'[c] = "done" /\ resp'[c] = resp[c])]_vars

\* The transport failed, the catch block resolved the caller, its attempt to
\* record threw before the insert, and the call was answered with the
\* transport's text.
C17_Witness ==
  \E c \in Calls :
    /\ Done(c) /\ TransportFailed(c) /\ catchUser[c] \in Users
    /\ stub[c].inserts = 0
    /\ BodyOf(c) = Json(FALSE, None, error[c])

(***************************************************************************)
(* Properties of the store.                                                *)
(***************************************************************************)
ConfigIdsOf(configs) == {cfg.id : cfg \in configs}

\* C18: a step that changes smtp_configs (a configuration is deleted) removes
\* no row of sent_emails: every row is still there with the same id and the
\* same fields, its smtp_config_id set to NULL when the configuration it
\* named is gone and kept otherwise.
C18_ConfigDeleteKeepsRecords ==
  [][smtp_configs' # smtp_configs =>
       \A row \in sent_emails :
         \E kept \in sent_emails' :
           /\ kept.id = row.id
           /\ kept = [row EXCEPT !.smtp_config_id =
                        IF IsSome(@) /\ Val(@) \notin ConfigIdsOf(smtp_configs')
                          THEN None ELSE @]]_vars

\* A "sent" row written through cfg1 is in sent_emails with a NULL reference,
\* cfg1 having been deleted.
C18_Witness ==
  \E c \in Calls : \E row \in RowsOf(c) :
    /\ req[c].smtp_config_id = Some("cfg1")
    /\ row.status = "sent"
    /\ row.smtp_config_id = None
    /\ "cfg1" \notin ConfigIdsOf(smtp_configs)

\* The row is absent after the step, which is its owner's DELETE.
DeletedByOwner(row) ==
  /\ \A kept \in sent_emails' : kept.id # row.id
  /\ DeleteSentEmail(row.user_id, row.id)

\* C19 as stated: no step changes a field of an existing row of sent_emails;
\* a row only ever disappears, by its owner's deletion.
C19_RecordImmutable ==
  [][\A row \in sent_emails :
       \/ row \in sent_emails'
       \/ DeletedByOwner(row)]_vars

\* C19 as amended: no step changes a field of an existing row of sent_emails
\* other than smtp_config_id, which changes only to NULL and only when the
\* configuration it named is deleted; a row only ever disappears by its
\* owner's deletion.
C19_RecordImmutableButReference ==
  [][\A row \in sent_emails :
       \/ row \in sent_emails'
       \/ /\ [row EXCEPT !.smtp_config_id = None] \in sent_emails'
          /\ IsSome(row.smtp_config_id)
          /\ Val(row.smtp_config_id) \in ConfigIdsOf(smtp_configs)
          /\ Val(row.smtp_config_id) \notin ConfigIdsOf(smtp_configs')
       \/ DeletedByOwner(row)]_vars

\* A call created a row and its owner has deleted it.
C19_Witness ==
  \E c \in Calls :
    /\ Done(c) /\ stub[c].rows # {} /\ RowsOf(c) = {}
    /\ sent_emails = {}

\* C20: every user has at most one configuration with is_default = true.
C20_SingleDefault ==
  \A u \in Users :
    Cardinality({cfg \in smtp_configs : cfg.user_id = u /\ cfg.is_default}) <= 1

(***************************************************************************)
(* Two calls served concurrently.                                          *)
(***************************************************************************)
Pair == {1, 2}

PairInit ==
  /\ smtp_configs = InitialConfigs
  /\ sent_emails = {}
  /\ nextId = 1
  /\ req = [c \in Pair |-> BaseRequest]
  /\ pc = [c \in Pair |-> "idle"]
  /\ bodyUsed = [c \in Pair |-> FALSE]
  /\ user = [c \in Pair |-> NoUser]
  /\ smtpConfig = [c \in Pair |-> NoConfig]
  /\ session = [c \in Pair |-> "none"]
  /\ delivered = [c \in Pair |-> None]
  /\ insertError = [c \in Pair |-> "unset"]
  /\ error = [c \in Pair |-> None]
  /\ catchUser = [c \in Pair |-> NoUser]
  /\ resp = [c \in Pair |-> NoResponse]
  /\ stub = [c \in Pair |-> NoStub]
  /\ settings = InitialSettings
  /\ nextConfigId = 0
  /\ compose = InitialCompose
  /\ auth = InitialAuth
  /\ nav = InitialNav

PairNext ==
  \E c \in Pair :
    \/ Receive(c)
    \/ GetUserReturns(c)
    \/ GetUserThrows(c)
    \/ Lookup(c)
    \/ SendDelivers(c)
    \/ SendFails(c)
    \/ Close(c)
    \/ CloseThrows(c)
    \/ InsertSent(c)
    \/ InsertSentThrows(c)
    \/ CatchGetUser(c)
    \/ CatchInsert(c)

PairSpec == PairInit /\ [][PairNext]_vars

\* The response of a finished call as its own request, the identity its own
\* token resolved to and the errors thrown to it alone determine it.
ResponseAlone(c) ==
  LET r == req[c] IN
    IF r.method = "OPTIONS" THEN PreflightResponse
    ELSE IF ~IsSome(r.Authorization)
      THEN JsonResponse(401, Json(FALSE, None, Some("Missing authorization header")))
    ELSE IF error[c] # None
      THEN JsonResponse(500, Json(FALSE, None, error[c]))
    ELSE IF resolveCaller(Val(r.Authorization)) = NoUser
      THEN JsonResponse(401, Json(FALSE, None, Some("Unauthorized")))
    ELSE IF ~FieldsPresent(r)
      THEN JsonResponse(400, Json(FALSE, None, Some("Missing required fields")))
    ELSE IF ~OwnsConfig(resolveCaller(Val(r.Authorization)), Val(r.smtp_config_id))
      THEN NotFoundResponse
    ELSE JsonResponse(200, Json(TRUE, Some("Email sent successfully"), None))

\* The fields of a row a call wrote, as its own request determines them.
RowAlone(c, row) ==
  /\ row.user_id = resolveCaller(Val(req[c].Authorization))
  /\ row.smtp_config_id = req[c].smtp_config_id
  /\ row.to_emails = req[c].to
  /\ row.subject = req[c].subject
  /\ row.body = req[c].body
  /\ row.status = IF error[c] = None THEN "sent" ELSE "failed"
  /\ row.error_message = error[c]

\* C21: of two calls served concurrently, whatever the interleaving, each
\* answers as its own request and its own collaborators' outcomes determine,
\* each delivers its own message through its own single transport call, each
\* row belongs to one call and holds that call's request, and two calls with
\* the same request that both stored a row leave two rows.
C21_ConcurrentCallsIndependent ==
  \A c \in Pair : \A d \in Pair \ {c} :
    /\ pc[c] = "done" => resp[c] = ResponseAlone(c)
    /\ delivered[c] # None =>
         /\ stub[c].sends = 1
         /\ Val(delivered[c]).to = Val(req[c].to)
         /\ Val(delivered[c]).subject = Val(req[c].subject)
    /\ \A row \in RowsOf(c) : RowAlone(c, row)
    /\ RowsOf(c) \cap RowsOf(d) = {}
    /\ (Done(c) /\ Done(d) /\ insertError[c] = "null" /\ insertError[d] = "null") =>
         /\ Cardinality(RowsOf(c)) = 1 /\ Cardinality(RowsOf(d)) = 1
         /\ Cardinality(sent_emails) = 2

\* Two calls with the same request were both delivered and answered 200 and
\* left a row each.
C21_Witness ==
  /\ req[1] = BaseRequest /\ req[2] = BaseRequest
  /\ Done(1) /\ Done(2)
  /\ resp[1].status = 200 /\ resp[2].status = 200
  /\ delivered[1] # None /\ delivered[2] # None
  /\ Cardinality(sent_emails) = 2

\* C22: a transmitted message carries the body of the request exactly once:
\* as `html` and without `content` when is_html is true, as `content` and
\* without `html` when is_html is false or omitted.
C22_ContentTypeExclusive ==
  \A c \in Calls :
    delivered[c] # None =>
      LET msg == Val(delivered[c]) IN
        IF req[c].is_html = Some(TRUE)
          THEN /\ "html" \in DOMAIN msg /\ "content" \notin DOMAIN msg
               /\ msg.html = Val(req[c].body)
          ELSE /\ "content" \in DOMAIN msg /\ "html" \notin DOMAIN msg
               /\ msg.content = Val(req[c].body)

\* A request with is_html true was transmitted with an html body.
C22_Witness ==
  \E c \in Calls :
    /\ req[c].is_html = Some(TRUE) /\ delivered[c] # None
    /\ "html" \in DOMAIN Val(delivered[c])

(***************************************************************************)
(* Properties of the settings page.                                        *)
(***************************************************************************)
PortInRange(port) == port >= 1 /\ port <= 65535

\* C23: every row a step of the settings page adds to smtp_configs or changes
\* has smtp_port in 1..65535, as has every formData sent to the store; and
\* handleSave on a form whose port is outside that range only raises the
\* "Validation Error" toast: nothing is sent and the store is unchanged.
C23_PortInRange ==
  [][/\ \A cfg \in smtp_configs' \ smtp_configs : PortInRange(cfg.smtp_port)
     /\ settings'.saving # None =>
          PortInRange(Val(settings'.saving).data.smtp_port)
     /\ (handleSave /\ ~PortInRange(settings.form.smtp_port)) =>
          /\ settings' = Toast("Validation Error")
          /\ smtp_configs' = smtp_configs]_vars

\* Save was pressed on a form with port 65536 and answered by the toast.
C23_Witness ==
  /\ settings.isDialogOpen
  /\ settings.form.smtp_port = 65536
  /\ settings.toast = Some("Validation Error")
  /\ settings.saving = None

(***************************************************************************)
(* The compose form: ComposeEmail.tsx.                                     *)
(***************************************************************************)
\* Variant of parseEmails: the empty pieces are kept.
parseEmailsNoFilter(input) == [i \in 1..Len(input) |-> trimText(input[i])]

\* parseEmails(input): nothing for a blank text, else the trimmed pieces that
\* are not empty.
parseEmails(input) ==
  IF Len(input) = 1 /\ trimText(input[1]) = ""
    THEN <<>>
    ELSE SelectSeq([i \in 1..Len(input) |-> trimText(input[i])],
                   LAMBDA e : e # "")

\* Variant of validateEmails: only the first address is checked.
validateEmailsFirstOnly(emails) == emails = <<>> \/ emailSchema(emails[1])

\* validateEmails(emails): every address passes emailSchema.
validateEmails(emails) == \A i \in 1..Len(emails) : emailSchema(emails[i])

\* The loading card and the "No SMTP Configuration" card replace the form.
ComposeRendered == ~compose.loadingConfigs /\ compose.configs # {}

ComposeToast(title) == [compose EXCEPT !.toast = Some(title)]

\* The rows fetchConfigs can put first: order by is_default descending.
FirstConfigs(data) ==
  {cfg \in data : \A other \in data : other.is_default => cfg.is_default}

\* fetchConfigs of ComposeEmail settles: the rows the policy shows the user,
\* the first one selected; or an error, logged.
ComposeFetchConfigs ==
  /\ compose.loadingConfigs
  /\ \E failed \in BOOLEAN :
       LET data == {cfg \in smtp_configs : ConfigPolicy(SessionUser, cfg)}
       IN IF failed
            THEN compose' = [compose EXCEPT !.loadingConfigs = FALSE]
            ELSE \E first \in IF data = {} THEN {""}
                              ELSE {cfg.id : cfg \in FirstConfigs(data)} :
                   compose' = [compose EXCEPT
                                 !.configs = {cfg.id : cfg \in data},
                                 !.selectedConfig = first,
                                 !.loadingConfigs = FALSE]
  /\ UNCHANGED <<store, handlerVars, settingsVars, auth, nav>>

\* <Select onValueChange={setSelectedConfig}>
setSelectedConfig ==
  /\ ComposeRendered
  /\ \E id \in compose.configs :
       compose' = [compose EXCEPT !.selectedConfig = id]
  /\ UNCHANGED <<store, handlerVars, settingsVars, auth, nav>>

\* The "Cc/Bcc" button.
setShowCcBcc ==
  /\ ComposeRendered
  /\ ~compose.showCcBcc
  /\ compose' = [compose EXCEPT !.showCcBcc = TRUE]
  /\ UNCHANGED <<store, handlerVars, settingsVars, auth, nav>>

setTo ==
  /\ ComposeRendered
  /\ \E t \in ToTexts : compose' = [compose EXCEPT !.to = t]
  /\ UNCHANGED <<store, handlerVars, settingsVars, auth, nav>>

\* The Cc and Bcc inputs are rendered once showCcBcc is set.
setCc ==
  /\ ComposeRendered
  /\ compose.showCcBcc
  /\ \E t \in CcTexts : compose' = [compose EXCEPT !.cc = t]
  /\ UNCHANGED <<store, handlerVars, settingsVars, auth, nav>>

setBcc ==
  /\ ComposeRendered
  /\ compose.showCcBcc
  /\ \E t \in BccTexts : compose' = [compose EXCEPT !.bcc = t]
  /\ UNCHANGED <<store, handlerVars, settingsVars, auth, nav>>

setSubject ==
  /\ ComposeRendered
  /\ \E t \in SubjectTexts : compose' = [compose EXCEPT !.subject = t]
  /\ UNCHANGED <<store, handlerVars, settingsVars, auth, nav>>

setBody ==
  /\ ComposeRendered
  /\ \E t \in BodyTexts : compose' = [compose EXCEPT !.body = t]
  /\ UNCHANGED <<store, handlerVars, settingsVars, auth, nav>>

\* The body handleSend passes to supabase.functions.invoke.
sendBody ==
  LET ccEmails == parseEmails(compose.cc)
      bccEmails == parseEmails(compose.bcc)
  IN [method |-> "POST", Authorization |-> Some(SessionToken),
      malformed |-> FALSE,
      smtp_config_id |-> Some(compose.selectedConfig),
      to |-> Some(parseEmails(compose.to)),
      cc |-> IF Len(ccEmails) > 0 THEN Some(ccEmails) ELSE None,
      bcc |-> IF Len(bccEmails) > 0 THEN Some(bccEmails) ELSE None,
      subject |-> Some(trim(compose.subject)),
      body |-> Some(trim(compose.body)),
      is_html |-> Some(FALSE)]

\* handleSend up to its await: the four checks, each ending in a toast and a
\* return, then setIsSending(true) and the invocation, the handler running
\* up to its first await.  The Send button is disabled while isSending.
handleSend ==
  /\ ComposeRendered
  /\ ~compose.isSending
  /\ LET toEmails == parseEmails(compose.to)
         ccEmails == parseEmails(compose.cc)
         bccEmails == parseEmails(compose.bcc)
     IN IF compose.selectedConfig = ""
          THEN compose' = ComposeToast("No SMTP Configuration")
               /\ UNCHANGED <<req, pc>>
          ELSE IF Len(toEmails) = 0
            THEN compose' = ComposeToast("Missing Recipient")
                 /\ UNCHANGED <<req, pc>>
            ELSE IF ~validateEmails(toEmails \o ccEmails \o bccEmails)
              THEN compose' = ComposeToast("Invalid Email")
                   /\ UNCHANGED <<req, pc>>
              ELSE IF trim(compose.subject) = <<>>
                THEN compose' = ComposeToast("Missing Subject")
                     /\ UNCHANGED <<req, pc>>
                ELSE \E c \in Calls :
                       /\ pc[c] = "idle"
                       /\ compose' = [compose EXCEPT !.isSending = TRUE,
                                                     !.invoking = Some(c),
                                                     !.result = None]
                       /\ req' = [req EXCEPT ![c] = sendBody]
                       /\ pc' = [pc EXCEPT ![c] = "getUser"]
  /\ UNCHANGED <<store, bodyUsed, user, smtpConfig, session, delivered,
                 insertError, error, catchUser, resp, stub, settingsVars,
                 auth, nav>>

\* Variant of ClearedForm: the fields are kept.
ClearedFormKeepsFields == compose

\* "Clear form": setTo('') ... setBody(''), setShowCcBcc(false).
ClearedForm ==
  [compose EXCEPT !.to = EmptyText, !.cc = EmptyText, !.bcc = EmptyText,
                  !.subject = <<>>, !.body = <<>>, !.showCcBcc = FALSE]

\* What supabase.functions.invoke resolves to: the parsed body of a 2xx
\* response, or an error for any other status or for a response that did not
\* arrive.
InvokeResult(response, arrived) ==
  IF arrived /\ response.status \in 200..299
    THEN [data |-> response.body, error |-> FALSE]
    ELSE [data |-> None, error |-> TRUE]

\* handleSend from its await on, once the handler has returned: the form is
\* cleared for data.success, anything else is thrown to the catch block's
\* toast; finally setIsSending(false).
InvokeSettles(c) ==
  /\ compose.invoking = Some(c)
  /\ pc[c] = "done"
  /\ \E arrived \in BOOLEAN :
       LET result == InvokeResult(resp[c], arrived)
       IN IF ~result.error /\ Val(result.data).success
            THEN compose' = [ClearedForm EXCEPT !.toast = Some("Email Sent!"),
                                                !.isSending = FALSE,
                                                !.invoking = None,
                                                !.result = Some(result)]
            ELSE compose' = [compose EXCEPT !.toast = Some("Failed to Send"),
                                            !.isSending = FALSE,
                                            !.invoking = None,
                                            !.result = Some(result)]
  /\ UNCHANGED <<store, handlerVars, settingsVars, auth, nav>>

ComposeNext ==
  \/ ComposeFetchConfigs
  \/ setSelectedConfig
  \/ setShowCcBcc
  \/ setTo
  \/ setCc
  \/ setBcc
  \/ setSubject
  \/ setBody
  \/ handleSend
  \/ \E c \in Calls :
       \/ GetUserReturns(c)
       \/ GetUserThrows(c)
       \/ Lookup(c)
       \/ SendDelivers(c)
       \/ SendFails(c)
       \/ Close(c)
       \/ CloseThrows(c)
       \/ InsertSent(c)
       \/ InsertSentThrows(c)
       \/ CatchGetUser(c)
       \/ CatchInsert(c)
       \/ InvokeSettles(c)

ComposeSpec == Init /\ [][ComposeNext]_vars

(***************************************************************************)
(* Properties of the compose form.                                         *)
(***************************************************************************)
\* The recipient texts of the form, parsed.
ParsedLists ==
  {parseEmails(compose.to), parseEmails(compose.cc), parseEmails(compose.bcc)}

\* A configuration is selected, `to` parses to at least one address, every
\* address of to, cc and bcc is valid and the trimmed subject is not empty.
ComposeChecks ==
  /\ compose.selectedConfig # ""
  /\ Len(parseEmails(compose.to)) > 0
  /\ \A list \in ParsedLists : \A i \in 1..Len(list) : emailSchema(list[i])
  /\ trim(compose.subject) # <<>>

\* C24: the compose form invokes send-email only when a configuration is
\* selected, the parsed `to` list is not empty, every address of to, cc and
\* bcc is valid and the trimmed subject is not empty; a handleSend that fails
\* one of these checks invokes nothing and leaves isSending false.
C24_InvokeOnlyWhenChecked ==
  [][/\ (\E c \in Calls : pc[c] = "idle" /\ pc'[c] # "idle") => ComposeChecks
     /\ (~compose.isSending /\ compose'.isSending) =>
          /\ ComposeChecks
          /\ \E c \in Calls : pc[c] = "idle" /\ pc'[c] # "idle"
     /\ (handleSend /\ ~ComposeChecks) =>
          /\ pc' = pc
          /\ req' = req
          /\ ~compose'.isSending]_vars

C24_Witness ==
  /\ compose.cc = <<BadAddr>>
  /\ compose.toast = Some("Invalid Email")
  /\ ~compose.isSending
  /\ \A c \in Calls : pc[c] = "idle"

(***************************************************************************)
(* Properties of the settings dialog.                                      *)
(***************************************************************************)
\* C25: the "Add Configuration" trigger opens the dialog with editingConfig
\* null and a blank form, whatever was opened, cancelled, closed or saved
\* before, so that Save inserts a new configuration.
C25_AddOpensBlank ==
  [][OpenAddDialog =>
       /\ settings'.editingConfig = None
       /\ settings'.form = BlankForm]_vars

(***************************************************************************)
(* Properties of the handler's records and responses.                      *)
(***************************************************************************)
\* C26: a "failed" record is written only for a call whose message was not
\* transmitted, and a call whose SMTP send succeeded ends with neither a
\* "failed" record nor a failure response, also when closing the session or
\* a later step throws after the send.
C26_NoFailureAfterSend ==
  \A c \in Calls :
    /\ \A row \in RowsOf(c) : row.status = "failed" => delivered[c] = None
    /\ (Done(c) /\ delivered[c] # None) =>
         /\ resp[c].status = 200
         /\ BodyOf(c).success

\* C27: every record the handler writes carries the user_id of the identity
\* the request's token resolves to, and a "sent" record names a configuration
\* that this user owns.
C27_RecordsBelongToCaller ==
  \A c \in Calls : \A row \in RowsOf(c) :
    /\ IsSome(req[c].Authorization)
    /\ row.user_id = resolveCaller(Val(req[c].Authorization))
    /\ row.status = "sent" =>
         /\ IsSome(row.smtp_config_id)
         /\ OwnsConfig(row.user_id, Val(row.smtp_config_id))

C27_Witness ==
  \E c \in Calls : \E row \in RowsOf(c) :
    /\ req[c].Authorization = Some("tok2")
    /\ row.status = "sent"
    /\ row.user_id = "u2"
    /\ row.smtp_config_id = Some("cfg2")

(***************************************************************************)
(* Properties of the compose form after the invocation.                    *)
(***************************************************************************)
\* The five fields of the form.
FieldsOf(form) == <<form.to, form.cc, form.bcc, form.subject, form.body>>

\* The fields as "Clear form" leaves them.
ClearFields == <<EmptyText, EmptyText, EmptyText, <<>>, <<>>>>

\* The invoke resolved to a response that reports success: true.
ReportsSuccess(result) ==
  /\ ~result.error
  /\ IsSome(result.data)
  /\ Val(result.data).success

\* C28: handleSend clears to, cc, bcc, subject and body exactly when the
\* response it received reports success: true; a failed check, an invoke
\* error and a success: false leave the fields as they were; and whenever an
\* invoked send finishes, isSending is false again.
C28_ClearsExactlyOnSuccess ==
  [][/\ handleSend => FieldsOf(compose') = FieldsOf(compose)
     /\ \A c \in Calls : InvokeSettles(c) =>
          /\ ~compose'.isSending
          /\ IF ReportsSuccess(Val(compose'.result))
               THEN FieldsOf(compose') = ClearFields
               ELSE FieldsOf(compose') = FieldsOf(compose)]_vars

C28_Witness ==
  \E c \in Calls :
    /\ pc[c] = "done"
    /\ req[c].to = Some(<<GoodAddr>>)
    /\ resp[c].status = 200
    /\ compose.invoking = None
    /\ IsSome(compose.result)
    /\ ReportsSuccess(Val(compose.result))
    /\ compose.toast = Some("Email Sent!")
    /\ FieldsOf(compose) = ClearFields
    /\ ~compose.isSending

(***************************************************************************)
(* The routed pages: Index at "/" and Auth at "/auth".                     *)
(***************************************************************************)
\* What useAuth() can return: no user or a user, loading or not.
AuthStates == [user : Users \cup {NoUser}, loading : BOOLEAN]

\* The location the router shows.
Location == nav.history[Len(nav.history)]

\* Variant of IndexRedirects: the user is not looked at.
IndexRedirectsWithoutUserTest(a) == ~a.loading

\* The condition of Index's effect: if (!loading && !user).
IndexRedirects(a) == ~a.loading /\ a.user = NoUser

\* The condition of Auth's effect: if (user && !loading).
AuthRedirects(a) == a.user # NoUser /\ ~a.loading

\* What Index returns: the loading screen, null, or the page with the
\* current view.
IndexRenders ==
  IF auth.loading THEN "loading"
  ELSE IF auth.user = NoUser THEN "null"
  ELSE nav.currentView

\* navigate(path): the location is pushed and its page mounted, with fresh
\* state and its effect to run.
navigate(path) ==
  /\ Len(nav.history) < MaxHistory
  /\ nav' = [history |-> Append(nav.history, path),
             currentView |-> "compose", effect |-> TRUE]

\* The provider's state changes; both pages' effects depend on user and
\* loading, so the mounted page's effect runs again.
AuthStateChanges ==
  /\ \E a \in AuthStates \ {auth} : auth' = a
  /\ nav' = [nav EXCEPT !.effect = TRUE]
  /\ UNCHANGED <<store, handlerVars, settingsVars, compose>>

\* useEffect of Index.
IndexEffect ==
  /\ Location = IndexPath
  /\ nav.effect
  /\ IF IndexRedirects(auth)
       THEN navigate(AuthPath)
       ELSE nav' = [nav EXCEPT !.effect = FALSE]
  /\ UNCHANGED <<store, handlerVars, settingsVars, compose, auth>>

\* useEffect of Auth.
AuthEffect ==
  /\ Location = AuthPath
  /\ nav.effect
  /\ IF AuthRedirects(auth)
       THEN navigate(IndexPath)
       ELSE nav' = [nav EXCEPT !.effect = FALSE]
  /\ UNCHANGED <<store, handlerVars, settingsVars, compose, auth>>

\* The sidebar's onViewChange, the sidebar being part of the page Index
\* renders for a user.
setCurrentView(view) ==
  /\ Location = IndexPath
  /\ IndexRenders \in Views
  /\ nav' = [nav EXCEPT !.currentView = view]
  /\ UNCHANGED <<store, handlerVars, settingsVars, compose, auth>>

NavNext ==
  \/ AuthStateChanges
  \/ IndexEffect
  \/ AuthEffect
  \/ \E view \in Views : setCurrentView(view)

NavSpec == Init /\ [][NavNext]_vars

(***************************************************************************)
(* Properties of the redirects.                                            *)
(***************************************************************************)
\* C29: Index leaves for /auth only when loading is false and there is no
\* user, Auth leaves for / only when loading is false and there is a user,
\* neither leaves while loading, the page a redirect arrives at does not
\* redirect back in the same auth state, and Index renders no mail view
\* while there is no user.
C29_RedirectsExclusive ==
  [][/\ (Location = IndexPath /\ Location' = AuthPath) =>
          (~auth.loading /\ auth.user = NoUser)
     /\ (Location = AuthPath /\ Location' = IndexPath) =>
          (~auth.loading /\ auth.user # NoUser)
     /\ nav'.history # nav.history =>
          /\ ~auth.loading
          /\ auth' = auth
          /\ Location' # Location
          /\ IF Location' = IndexPath
               THEN ~(~auth'.loading /\ auth'.user = NoUser)
               ELSE ~(~auth'.loading /\ auth'.user # NoUser)
     /\ (Location' = IndexPath /\ auth'.user = NoUser) =>
          IndexRenders' \notin Views]_vars

C29_Witness ==
  /\ nav.history = <<IndexPath, AuthPath, IndexPath>>
  /\ auth.user = "u1"
  /\ ~auth.loading
  /\ ~nav.effect
  /\ IndexRenders \in Views

====
